---------------------------- MODULE Spec2Model ----------------------------
(***************************************************************************)
(* osprey: a log scanner.  On every tick of a timer main() starts workers  *)
(* and pushes one copy of every scanner on a buffered channel; a worker    *)
(* takes a scanner and runs Execute on it: getAnchor (read the .igu        *)
(* record), scanFile (read the log, split it, scan the unread lines),      *)
(* setAnchor (rewrite the .igu record) and one Issues.Create per finding.  *)
(*                                                                         *)
(* File contents are sequences of one-character strings, so that           *)
(* strings.Split, strings.Join, strings.Contains, bufio.ScanLines,         *)
(* fmt.Sprintf("%d") and strconv.Atoi are modelled by what they compute.   *)
(***************************************************************************)
EXTENDS Integers, Sequences, FiniteSets, Bags, TLC

(***************************************************************************)
(* Bounds of the model.                                                    *)
(***************************************************************************)
\* the largest number of services in the configuration
MaxSources == 2
\* the largest max_workers in the configuration
MaxWorkersCfg == 2
\* the number of ticks of the timer that are explored
MaxTicks == 2
\* the number of lines the services write to the log files
MaxAppends == 2
\* the number of writes the service makes to its log in SpecScan
MaxChunks == 4
\* the number of faults injected in SpecFaults
MaxFaults == 2
\* the lines of the longest log a restarted process finds
MaxLogLines == 12

(***************************************************************************)
(* Text.                                                                   *)
(***************************************************************************)
NL == "\n"
CR == "\r"
\* stands for a run of bufio.MaxScanTokenSize bytes holding no newline
BigRun == "#"

defaultErrorKeyword == <<"e", "r", "r", "o", "r">>

Digits == <<"0", "1", "2", "3", "4", "5", "6", "7", "8", "9">>

\* F applied to the value of x, which is computed once
Bind(x, F(_)) == CHOOSE r \in {F(v) : v \in {x}} : TRUE

Range(f) == {f[i] : i \in DOMAIN f}

Last(s) == s[Len(s)]

Front(s) == SubSeq(s, 1, Len(s) - 1)

\* the index of the first c in s, 0 when there is none (bytes.IndexByte + 1)
IndexByte(s, c) ==
    Bind(s, LAMBDA v :
        IF \E i \in 1..Len(v) : v[i] = c
        THEN CHOOSE i \in 1..Len(v) : v[i] = c /\ \A j \in 1..(i - 1) : v[j] # c
        ELSE 0)

\* strings.Contains
Contains(s, sub) ==
    \E i \in 0..(Len(s) - Len(sub)) : SubSeq(s, i + 1, i + Len(sub)) = sub

\* strings.Split(s, sep) for a one-byte separator: the segments between the
\* separators, one more than there are separators
RECURSIVE Split(_, _)
Split(s, sep) ==
    Bind(s, LAMBDA v : Bind(IndexByte(v, sep), LAMBDA i :
        IF i = 0
        THEN <<v>>
        ELSE <<SubSeq(v, 1, i - 1)>> \o Split(SubSeq(v, i + 1, Len(v)), sep)))

\* strings.Join(segs, sep)
RECURSIVE Join(_, _)
Join(segs, sep) ==
    Bind(segs, LAMBDA v :
        IF v = <<>> THEN <<>>
        ELSE IF Len(v) = 1 THEN v[1]
        ELSE v[1] \o <<sep>> \o Join(Tail(v), sep))

\* bufio.dropCR
dropCR(data) ==
    IF Len(data) > 0 /\ Last(data) = CR THEN Front(data) ELSE data

\* bufio.Scanner with bufio.ScanLines run to the end of the input: the tokens
\* it returns and whether it stopped on bufio.ErrTooLong.  A line ends at a
\* newline; the last non-empty line is returned even without one.
RECURSIVE ScanAll(_, _)
ScanAll(data, toks) ==
    Bind(data, LAMBDA d : Bind(toks, LAMBDA t : Bind(IndexByte(d, NL), LAMBDA i :
        IF d = <<>>
        THEN [tokens |-> t, err |-> FALSE]
        ELSE LET line == IF i > 0 THEN SubSeq(d, 1, i - 1) ELSE d
                 rest == IF i > 0 THEN SubSeq(d, i + 1, Len(d)) ELSE <<>>
             IN  IF BigRun \in Range(line)
                 THEN [tokens |-> t, err |-> TRUE]
                 ELSE ScanAll(rest, Append(t, dropCR(line))))))

\* fmt.Sprintf("%d", n) for n >= 0
RECURSIVE Itoa(_)
Itoa(n) ==
    IF n < 10 THEN <<Digits[n + 1]>> ELSE Itoa(n \div 10) \o <<Digits[(n % 10) + 1]>>

DigitValue(c) == CHOOSE d \in 0..9 : Digits[d + 1] = c

RECURSIVE DigitsValue(_)
DigitsValue(s) ==
    IF s = <<>> THEN 0 ELSE 10 * DigitsValue(Front(s)) + DigitValue(Last(s))

\* strconv.Atoi: an optional sign and at least one decimal digit
Atoi(s) ==
    LET signed == Len(s) > 0 /\ s[1] \in {"+", "-"}
        body   == IF signed THEN Tail(s) ELSE s
    IN  IF body = <<>> \/ \E i \in 1..Len(body) : body[i] \notin Range(Digits)
        THEN [ok |-> FALSE, val |-> 0]
        ELSE [ok |-> TRUE,
              val |-> IF signed /\ s[1] = "-" THEN 0 - DigitsValue(body)
                      ELSE DigitsValue(body)]

(***************************************************************************)
(* The pure parts of the scanner.                                          *)
(***************************************************************************)
None == "none"
IndexOutOfRange == "panic: runtime error: index out of range"
SliceBounds == "panic: runtime error: slice bounds out of range"

\* setAnchor's fmt.Sprintf("last:%d\n", newAnchor)
anchorRecord(newAnchor) == <<"l", "a", "s", "t", ":">> \o Itoa(newAnchor) \o <<NL>>

\* extract with the key taken for the value: tks[0] in place of tks[1]
extractKey(line) ==
    LET n == Atoi(Split(line, ":")[1])
    IN  IF n.ok THEN [status |-> "ok", val |-> n.val] ELSE [status |-> "err", val |-> 0]

\* extract: the integer after the first ":" of the line.  tks[1] is read
\* without a check that the line holds a ":" at all.
extract(line) ==
    Bind(Split(line, ":"), LAMBDA tks :
        IF Len(tks) = 0 THEN [status |-> "ok", val |-> 0]
        ELSE IF Len(tks) < 2 THEN [status |-> IndexOutOfRange, val |-> 0]
        ELSE Bind(Atoi(tks[2]), LAMBDA n :
                 IF n.ok THEN [status |-> "ok", val |-> n.val]
                 ELSE [status |-> "err", val |-> 0]))

\* getAnchor from the opened record on: the first line of the record, an
\* empty one leaves s.anchor as it is, any other goes through extract.
loadAnchor(data, anchor) ==
    Bind(ScanAll(data, <<>>), LAMBDA r :
    LET anchorLine == IF r.tokens = <<>> THEN <<>> ELSE r.tokens[1]
    IN  IF r.tokens = <<>> /\ r.err THEN [status |-> "err", anchor |-> anchor]
        ELSE IF anchorLine = <<>> THEN [status |-> "ok", anchor |-> anchor]
        ELSE LET x == extract(anchorLine)
             IN  [status |-> x.status,
                  anchor |-> IF x.status = "ok" THEN x.val ELSE anchor])

\* the slice taken one line too far down: logs[s.anchor+1:]
unreadFromNext(logs, anchor) == SubSeq(logs, anchor + 2, Len(logs))

\* logs[s.anchor:]
unread(logs, anchor) == SubSeq(logs, anchor + 1, Len(logs))

\* the bodies of the issue requests: the scanned lines that hold the keyword
findings(tokens) == SelectSeq(tokens, LAMBDA t : Contains(t, defaultErrorKeyword))

\* the line numbers, counted from 1 at the top of the log, of the scanned
\* lines that hold the keyword
findingLines(tokens, anchor) ==
    LET hits == SelectSeq([j \in 1..Len(tokens) |-> j],
                          LAMBDA j : Contains(tokens[j], defaultErrorKeyword))
    IN  [k \in 1..Len(hits) |-> anchor + hits[k]]

\* forward += 1 moved into the branch that appends an issue
forwardOnFindingsOnly(tokens) == Len(findings(tokens))

\* forward counts the empty segment that follows the last newline as well
forwardPlusOne(tokens) == Len(tokens) + 1

\* forward: one for every line the scanner returned
forward(tokens) == Len(tokens)

\* scanFile after ioutil.ReadFile has returned dat
scanFile(dat, anchor) ==
    Bind(Split(dat, NL), LAMBDA logs :
        IF anchor < 0 \/ anchor > Len(logs)
        THEN [status |-> SliceBounds, newAnchor |-> anchor, issues |-> <<>>,
              at |-> <<>>]
        ELSE Bind(ScanAll(Join(unread(logs, anchor), NL), <<>>), LAMBDA r :
                 [status    |-> IF r.err THEN "err" ELSE "ok",
                  newAnchor |-> anchor + forward(r.tokens),
                  issues    |-> findings(r.tokens),
                  at        |-> findingLines(r.tokens, anchor)]))

\* the comparison of scan's test turned around
advancesFlipped(newAnchor, anchor) == newAnchor < anchor

\* scan's test before setAnchor
advances(newAnchor, anchor) == newAnchor > anchor

(***************************************************************************)
(* The state.                                                              *)
(***************************************************************************)
VARIABLES
    scanners,    \* main's slice of scanners, one per configured service
    maxWorkers,  \* max_workers of the configuration
    logfile,     \* the log file of each service
    igu,         \* the .igu anchor record of each service
    queue,       \* the buffered channel of scanner copies
    workers,     \* the number of worker goroutines started so far
    running,     \* the Execute calls in progress, one record each
    mainpc,      \* where main is: waiting for a tick, or pushing
    idx,         \* the scanner main pushes next
    panicked,    \* the panic that ended the process, if any
    tracker,     \* the findings the issue tracker has received: a bag of
                 \* <<service, line number>>
    faults       \* the number of faults injected so far

cfg   == <<scanners, maxWorkers>>
files == <<logfile, igu>>
sched == <<queue, workers, mainpc, idx>>
vars  == <<scanners, maxWorkers, logfile, igu, queue, workers, running, mainpc,
           idx, panicked, tracker, faults>>

Services == 1..MaxSources

Sources == 1..Len(scanners)

NoFile == [exists |-> FALSE, data |-> <<>>]

File(data) == [exists |-> TRUE, data |-> data]

\* workerN := len(scanners); if workerN > maxWorkers { workerN = maxWorkers }
workerN == IF Len(scanners) > maxWorkers THEN maxWorkers ELSE Len(scanners)

\* the copy of a scanner a worker receives: its anchor field is zero, main's
\* scanners are never written.  at holds the line number of every issue and
\* stored tells that setAnchor has returned nil.
NewExec(s) ==
    [src |-> s, pc |-> "getAnchor", anchor |-> 0, newAnchor |-> 0,
     issues |-> <<>>, at |-> <<>>, stored |-> FALSE, i |-> 0, err |-> None]

Execs == BagToSet(running)

Alive == panicked = None

Goto(e, e2) == running' = (running (-) SetToBag({e})) (+) SetToBag({e2})

\* Execute returns nil: the worker goes back to the channel
Finish(e) == running' = running (-) SetToBag({e})

\* Execute returns the error of the stage that failed: the worker is about to
\* log it
Fail(e, stage) == [NewExec(e.src) EXCEPT !.pc = "logErr", !.err = stage]

\* a write of bytes at offset 0 of a file that holds old
overlay(old, bytes) == bytes \o SubSeq(old, Len(bytes) + 1, Len(old))

InitProgram ==
    /\ queue = <<>>
    /\ workers = 0
    /\ running = EmptyBag
    /\ mainpc = "wait"
    /\ idx = 1
    /\ panicked = None
    /\ tracker = EmptyBag
    /\ faults = 0

(***************************************************************************)
(* main: the ticker loop.                                                  *)
(***************************************************************************)
\* the loop with i < workerN for i <= workerN: one worker less is started
startedOneLess(w) == w + workerN - 1

\* for i := 1; i <= workerN; i++ { go func() {...}() }: the workers alive after
\* the loop when w were alive before it
started(w) == w + workerN

\* a tick arrives: workerN more workers are started, then the push loop begins
Tick ==
    /\ Alive
    /\ mainpc = "wait"
    /\ workers < MaxTicks * workerN
    /\ workers' = started(workers)
    /\ mainpc' = "push"
    /\ idx' = 1
    /\ UNCHANGED <<cfg, tracker, faults, files, queue, running, panicked>>

\* queue <- *scanner: blocks while the channel holds workerN scanners
Push ==
    /\ Alive
    /\ mainpc = "push"
    /\ Len(queue) < workerN
    /\ queue' = Append(queue, scanners[idx])
    /\ IF idx = Len(scanners)
       THEN mainpc' = "wait" /\ idx' = 1
       ELSE mainpc' = "push" /\ idx' = idx + 1
    /\ UNCHANGED <<cfg, tracker, faults, files, workers, running, panicked>>

\* scanner := <-queue in a worker that is not executing
Take ==
    /\ Alive
    /\ workers > BagCardinality(running)
    /\ queue # <<>>
    /\ queue' = Tail(queue)
    /\ running' = running (+) SetToBag({NewExec(Head(queue))})
    /\ UNCHANGED <<cfg, tracker, faults, files, workers, mainpc, idx, panicked>>

(***************************************************************************)
(* A worker: Execute on the scanner it took.                               *)
(***************************************************************************)
\* getAnchor: os.Stat(s.iguFilePath)
getAnchorStat(e) ==
    /\ Alive
    /\ e.pc = "getAnchor"
    /\ Goto(e, [e EXCEPT !.pc = IF igu[e.src].exists THEN "open" ELSE "create"])
    /\ UNCHANGED <<cfg, tracker, faults, files, sched, panicked>>

\* getAnchor: os.Create truncates whatever the path holds by now; "last:0\n"
\* goes to a bufio.Writer that is never flushed, so the file stays empty
getAnchorCreate(e) ==
    /\ Alive
    /\ e.pc = "create"
    /\ igu' = [igu EXCEPT ![e.src] = File(<<>>)]
    /\ Goto(e, [e EXCEPT !.pc = "open"])
    /\ UNCHANGED <<cfg, tracker, faults, logfile, sched, panicked>>

\* getAnchor: os.Open, the first line, extract
getAnchorRead(e) ==
    /\ Alive
    /\ e.pc = "open"
    /\ \E r \in {loadAnchor(igu[e.src].data, e.anchor)} :
           IF ~igu[e.src].exists
           THEN Goto(e, Fail(e, "getAnchor")) /\ UNCHANGED panicked
           ELSE IF r.status = "ok"
           THEN Goto(e, [e EXCEPT !.pc = "scanFile", !.anchor = r.anchor])
                /\ UNCHANGED panicked
           ELSE IF r.status = "err"
           THEN Goto(e, Fail(e, "getAnchor")) /\ UNCHANGED panicked
           ELSE panicked' = r.status /\ UNCHANGED running
    /\ UNCHANGED <<cfg, tracker, faults, files, sched>>

\* scanFile: ioutil.ReadFile, split, skip, scan; then scan's test whether to
\* call setAnchor and Execute's test whether there is anything to submit
scanFileStep(e) ==
    /\ Alive
    /\ e.pc = "scanFile"
    /\ \E r \in {scanFile(logfile[e.src].data, e.anchor)} :
           IF ~logfile[e.src].exists
           THEN Goto(e, Fail(e, "scanFile")) /\ UNCHANGED panicked
           ELSE IF r.status = SliceBounds
           THEN panicked' = r.status /\ UNCHANGED running
           ELSE IF r.status = "err"
           THEN Goto(e, Fail(e, "scanFile")) /\ UNCHANGED panicked
           ELSE IF advances(r.newAnchor, e.anchor)
           THEN Goto(e, [e EXCEPT !.pc = "setAnchor", !.newAnchor = r.newAnchor,
                                  !.issues = r.issues, !.at = r.at])
                /\ UNCHANGED panicked
           ELSE IF r.issues # <<>>
           THEN Goto(e, [e EXCEPT !.pc = "submit", !.i = 1, !.newAnchor = r.newAnchor,
                                  !.issues = r.issues, !.at = r.at])
                /\ UNCHANGED panicked
           ELSE Finish(e) /\ UNCHANGED panicked
    /\ UNCHANGED <<cfg, tracker, faults, files, sched>>

\* setAnchor: os.OpenFile(..., O_RDWR|O_CREATE|O_TRUNC) empties the record
setAnchorOpen(e) ==
    /\ Alive
    /\ e.pc = "setAnchor"
    /\ igu' = [igu EXCEPT ![e.src] = File(<<>>)]
    /\ Goto(e, [e EXCEPT !.pc = "write"])
    /\ UNCHANGED <<cfg, tracker, faults, logfile, sched, panicked>>

\* setAnchor: f.WriteString("last:<newAnchor>\n") at offset 0; scan returns the
\* issues and Execute starts to submit them
setAnchorWrite(e) ==
    /\ Alive
    /\ e.pc = "write"
    /\ igu' = [igu EXCEPT ![e.src] =
                 IF igu[e.src].exists
                 THEN File(overlay(igu[e.src].data, anchorRecord(e.newAnchor)))
                 ELSE NoFile]
    /\ IF e.issues # <<>>
       THEN Goto(e, [e EXCEPT !.pc = "submit", !.i = 1, !.stored = TRUE])
       ELSE Finish(e)
    /\ UNCHANGED <<cfg, tracker, faults, logfile, sched, panicked>>

\* a break out of Execute's loop after the first call of Issues.Create
stopAfterIssue(e) == Finish(e)

\* Execute's loop over issReqs: on to the next issue, or return nil after the
\* last one
nextIssue(e) ==
    IF e.i = Len(e.issues) THEN Finish(e) ELSE Goto(e, [e EXCEPT !.i = e.i + 1])

\* Execute: s.client.Issues.Create for issue i succeeds: the tracker has it
submit(e) ==
    /\ Alive
    /\ e.pc = "submit"
    /\ tracker' = tracker (+) SetToBag({<<e.src, e.at[e.i]>>})
    /\ nextIssue(e)
    /\ UNCHANGED <<cfg, faults, files, sched, panicked>>

\* Execute: s.client.Issues.Create for issue i fails: the error is logged and
\* the loop goes on
submitFails(e) ==
    /\ Alive
    /\ e.pc = "submit"
    /\ nextIssue(e)
    /\ UNCHANGED <<cfg, tracker, faults, files, sched, panicked>>

\* the worker logs the error Execute returned and goes back to the channel
logErr(e) ==
    /\ Alive
    /\ e.pc = "logErr"
    /\ Finish(e)
    /\ UNCHANGED <<cfg, tracker, faults, files, sched, panicked>>

(***************************************************************************)
(* The services, which write the log files.                                *)
(***************************************************************************)
ErrorLine == defaultErrorKeyword \o <<NL>>
InfoLine == <<"o", "k", NL>>

NumNewlines(data) == Cardinality({i \in 1..Len(data) : data[i] = NL})

\* the number of lines the services have written so far
LinesWritten ==
    LET RECURSIVE Sum(_)
        Sum(n) == IF n = 0 THEN 0 ELSE NumNewlines(logfile[n].data) + Sum(n - 1)
    IN  Sum(MaxSources)

\* a service appends a whole line to its log
AppendLine ==
    \E s \in Sources, line \in {ErrorLine, InfoLine} :
        /\ Alive
        /\ logfile[s].exists
        /\ LinesWritten < MaxAppends
        /\ logfile' = [logfile EXCEPT ![s] = File(logfile[s].data \o line)]
        /\ UNCHANGED <<cfg, tracker, faults, igu, sched, running, panicked>>

(***************************************************************************)
(* Normal operation: any configuration, logs that exist and only grow by   *)
(* whole lines, anchor records touched by nobody else.                     *)
(***************************************************************************)
Init ==
    /\ \E n \in 1..MaxSources : scanners = [k \in 1..n |-> k]
    /\ maxWorkers \in 1..MaxWorkersCfg
    /\ logfile = [s \in Services |-> File(<<>>)]
    /\ igu = [s \in Services |-> NoFile]
    /\ InitProgram

Next ==
    \/ Tick
    \/ Push
    \/ Take
    \/ \E e \in Execs : getAnchorStat(e)
    \/ \E e \in Execs : getAnchorCreate(e)
    \/ \E e \in Execs : getAnchorRead(e)
    \/ \E e \in Execs : scanFileStep(e)
    \/ \E e \in Execs : setAnchorOpen(e)
    \/ \E e \in Execs : setAnchorWrite(e)
    \/ \E e \in Execs : submit(e)
    \/ \E e \in Execs : submitFails(e)
    \/ AppendLine

Spec == Init /\ [][Next]_vars

(***************************************************************************)
(* Fair scheduling: one or two services behind a channel with room for    *)
(* one scanner, logs that do not change while the cycles run, a ticker     *)
(* that fires, a runtime that schedules every goroutine that can run, and  *)
(* calls that return.                                                      *)
(***************************************************************************)
\* a step of Execute in some worker
step ==
    \E e \in Execs :
        \/ getAnchorStat(e)
        \/ getAnchorCreate(e)
        \/ getAnchorRead(e)
        \/ scanFileStep(e)
        \/ setAnchorOpen(e)
        \/ setAnchorWrite(e)
        \/ submit(e)
        \/ submitFails(e)

InitLive ==
    /\ scanners \in {<<1>>, <<1, 2>>}
    /\ maxWorkers = 1
    /\ \E l \in {File(<<>>), File(ErrorLine)} : logfile = [s \in Services |-> l]
    /\ igu = [s \in Services |-> NoFile]
    /\ InitProgram

NextLive ==
    \/ Tick
    \/ Push
    \/ Take
    \/ step

Fairness ==
    /\ WF_vars(Tick)
    /\ WF_vars(Push)
    /\ WF_vars(Take)
    /\ WF_vars(step)

SpecLive == InitLive /\ [][NextLive]_vars /\ Fairness

(***************************************************************************)
(* One service whose log grows by pieces of lines: a write may end in the  *)
(* middle of a line, and a later write completes it.                       *)
(***************************************************************************)
Chunks == {defaultErrorKeyword, <<"x">>, <<NL>>}

\* the number of writes that made data: every chunk starts with another byte
NumChunks(data) == Cardinality({i \in 1..Len(data) : data[i] \in {"e", "x", NL}})

\* the service appends a chunk to its log
AppendChunk ==
    \E s \in Sources, c \in Chunks :
        /\ Alive
        /\ logfile[s].exists
        /\ NumChunks(logfile[s].data) < MaxChunks
        /\ logfile' = [logfile EXCEPT ![s] = File(logfile[s].data \o c)]
        /\ UNCHANGED <<cfg, tracker, faults, igu, sched, running, panicked>>

InitScan ==
    /\ scanners = <<1>>
    /\ maxWorkers = 1
    /\ logfile = [s \in Services |-> File(<<>>)]
    /\ igu = [s \in Services |-> NoFile]
    /\ InitProgram

NextScan ==
    \/ Tick
    \/ Push
    \/ Take
    \/ \E e \in Execs : getAnchorStat(e)
    \/ \E e \in Execs : getAnchorCreate(e)
    \/ \E e \in Execs : getAnchorRead(e)
    \/ \E e \in Execs : scanFileStep(e)
    \/ \E e \in Execs : setAnchorOpen(e)
    \/ \E e \in Execs : setAnchorWrite(e)
    \/ \E e \in Execs : submit(e)
    \/ \E e \in Execs : submitFails(e)
    \/ AppendChunk

SpecScan == InitScan /\ [][NextScan]_vars

(***************************************************************************)
(* The "apple" scenario: one service whose log holds three lines without   *)
(* the keyword and later gets two more, one of them "error occurred".      *)
(***************************************************************************)
ErrorOccurred == defaultErrorKeyword \o <<" ", "o", "c", "c", "u", "r", "r", "e", "d">>

\* lines without the keyword
PlainLines == {<<"o", "k">>, <<"x">>}

\* the service appends two lines at once, one of them "error occurred"
AppendTwo ==
    \E s \in Sources, l \in PlainLines, first \in BOOLEAN :
        /\ Alive
        /\ logfile[s].exists
        /\ NumNewlines(logfile[s].data) = 3
        /\ logfile' = [logfile EXCEPT ![s] = File(
               logfile[s].data \o
               (IF first THEN ErrorOccurred \o <<NL>> \o l \o <<NL>>
                         ELSE l \o <<NL>> \o ErrorOccurred \o <<NL>>))]
        /\ UNCHANGED <<cfg, tracker, faults, igu, sched, running, panicked>>

InitScenario ==
    /\ scanners = <<1>>
    /\ maxWorkers = 1
    /\ \E l1 \in PlainLines, l2 \in PlainLines, l3 \in PlainLines :
          logfile = [s \in Services |->
                       IF s = 1 THEN File(l1 \o <<NL>> \o l2 \o <<NL>> \o l3 \o <<NL>>)
                       ELSE File(<<>>)]
    /\ igu = [s \in Services |-> NoFile]
    /\ InitProgram

NextScenario ==
    \/ Tick
    \/ Push
    \/ Take
    \/ \E e \in Execs : getAnchorStat(e)
    \/ \E e \in Execs : getAnchorCreate(e)
    \/ \E e \in Execs : getAnchorRead(e)
    \/ \E e \in Execs : scanFileStep(e)
    \/ \E e \in Execs : setAnchorOpen(e)
    \/ \E e \in Execs : setAnchorWrite(e)
    \/ \E e \in Execs : submit(e)
    \/ \E e \in Execs : submitFails(e)
    \/ AppendTwo

SpecScenario == InitScenario /\ [][NextScenario]_vars

(***************************************************************************)
(* A restart: the process starts on a log that already holds lines and on  *)
(* a record that an earlier run left behind it, or on none.                *)
(***************************************************************************)
\* a log of n lines without the keyword
QuietLog(n) ==
    LET RECURSIVE Rep(_)
        Rep(k) == IF k = 0 THEN <<>> ELSE <<"x", NL>> \o Rep(k - 1)
    IN  Rep(n)

InitRestart ==
    /\ scanners = <<1>>
    /\ maxWorkers = 1
    /\ \E n \in 1..MaxLogLines :
          /\ logfile = [s \in Services |-> IF s = 1 THEN File(QuietLog(n)) ELSE File(<<>>)]
          /\ \E r \in {NoFile} \cup {File(anchorRecord(u)) : u \in 0..(n - 1)} :
                igu = [s \in Services |-> IF s = 1 THEN r ELSE NoFile]
    /\ InitProgram

NextRestart ==
    \/ Tick
    \/ Push
    \/ Take
    \/ \E e \in Execs : getAnchorStat(e)
    \/ \E e \in Execs : getAnchorCreate(e)
    \/ \E e \in Execs : getAnchorRead(e)
    \/ \E e \in Execs : scanFileStep(e)
    \/ \E e \in Execs : setAnchorOpen(e)
    \/ \E e \in Execs : setAnchorWrite(e)

SpecRestart == InitRestart /\ [][NextRestart]_vars

(***************************************************************************)
(* Faults: calls that fail, logs that are removed, rotated or hold a line  *)
(* longer than the scanner's buffer, anchor records that someone edits.    *)
(***************************************************************************)
\* one more fault is injected
Fault == faults < MaxFaults /\ faults' = faults + 1

\* getAnchor: os.Open fails (the record is unreadable)
getAnchorOpenFails(e) ==
    /\ Alive
    /\ Fault
    /\ e.pc = "open"
    /\ Goto(e, Fail(e, "getAnchor"))
    /\ UNCHANGED <<cfg, tracker, files, sched, panicked>>

\* setAnchor: os.OpenFile fails and nothing is truncated
setAnchorOpenFails(e) ==
    /\ Alive
    /\ Fault
    /\ e.pc = "setAnchor"
    /\ Goto(e, Fail(e, "setAnchor"))
    /\ UNCHANGED <<cfg, tracker, files, sched, panicked>>

\* setAnchor: f.WriteString fails after the record has been truncated
setAnchorWriteFails(e) ==
    /\ Alive
    /\ Fault
    /\ e.pc = "write"
    /\ Goto(e, Fail(e, "setAnchor"))
    /\ UNCHANGED <<cfg, tracker, files, sched, panicked>>

\* a line longer than the scanner's buffer
LongLine == <<BigRun, NL>>

\* a service appends a line, possibly one that is too long to scan
AppendAnyLine ==
    \E s \in Sources, line \in {ErrorLine, LongLine} :
        /\ Alive
        /\ logfile[s].exists
        /\ LinesWritten < MaxAppends
        /\ logfile' = [logfile EXCEPT ![s] = File(logfile[s].data \o line)]
        /\ UNCHANGED <<cfg, tracker, faults, igu, sched, running, panicked>>

\* the log of a service is removed
RemoveLog ==
    \E s \in Sources :
        /\ Alive
        /\ Fault
        /\ logfile[s].exists
        /\ logfile' = [logfile EXCEPT ![s] = NoFile]
        /\ UNCHANGED <<cfg, tracker, igu, sched, running, panicked>>

\* the log of a service is rotated: it starts again empty
RotateLog ==
    \E s \in Sources :
        /\ Alive
        /\ Fault
        /\ logfile[s] # File(<<>>)
        /\ logfile' = [logfile EXCEPT ![s] = File(<<>>)]
        /\ UNCHANGED <<cfg, tracker, igu, sched, running, panicked>>

\* records that are not "last:<integer>": no colon, and no integer
BadRecords == {<<"7", NL>>, <<"l", "a", "s", "t", ":", "x", NL>>}

\* someone overwrites the anchor record of a service
EditRecord ==
    \E s \in Sources, r \in BadRecords :
        /\ Alive
        /\ Fault
        /\ igu[s].exists
        /\ igu[s].data \notin BadRecords
        /\ igu' = [igu EXCEPT ![s] = File(r)]
        /\ UNCHANGED <<cfg, tracker, logfile, sched, running, panicked>>

InitFaults ==
    /\ scanners = <<1, 2>>
    /\ maxWorkers = 1
    /\ logfile = [s \in Services |-> File(<<>>)]
    /\ igu = [s \in Services |-> NoFile]
    /\ InitProgram

NextFaults ==
    \/ Tick
    \/ Push
    \/ Take
    \/ \E e \in Execs : getAnchorStat(e)
    \/ \E e \in Execs : getAnchorCreate(e)
    \/ \E e \in Execs : getAnchorRead(e)
    \/ \E e \in Execs : getAnchorOpenFails(e)
    \/ \E e \in Execs : scanFileStep(e)
    \/ \E e \in Execs : setAnchorOpen(e)
    \/ \E e \in Execs : setAnchorOpenFails(e)
    \/ \E e \in Execs : setAnchorWrite(e)
    \/ \E e \in Execs : setAnchorWriteFails(e)
    \/ \E e \in Execs : submit(e)
    \/ \E e \in Execs : logErr(e)
    \/ AppendAnyLine
    \/ RemoveLog
    \/ RotateLog
    \/ EditRecord

SpecFaults == InitFaults /\ [][NextFaults]_vars

(***************************************************************************)
(* What the properties speak of.                                           *)
(***************************************************************************)
\* the anchor a load of record f yields: 0 for a missing or an empty record
PersistedAnchor(f) ==
    IF ~f.exists THEN 0
    ELSE LET r == loadAnchor(f.data, 0) IN IF r.status = "ok" THEN r.anchor ELSE 0

\* the Execute calls that have not returned yet
InProgress == {e \in Execs : e.pc # "logErr"}

NumInProgress ==
    LET RECURSIVE Sum(_)
        Sum(S) == IF S = {} THEN 0
                  ELSE LET x == CHOOSE x \in S : TRUE
                       IN  CopiesIn(x, running) + Sum(S \ {x})
    IN  Sum(InProgress)

NumInProgressOn(s) ==
    LET RECURSIVE Sum(_)
        Sum(S) == IF S = {} THEN 0
                  ELSE LET x == CHOOSE x \in S : TRUE
                       IN  CopiesIn(x, running) + Sum(S \ {x})
    IN  Sum({e \in InProgress : e.src = s})

\* the newline-terminated lines of a log, top to bottom
TerminatedLines(data) ==
    LET RECURSIVE Lines(_)
        Lines(d) == LET i == IndexByte(d, NL)
                    IN  IF i = 0 THEN <<>>
                        ELSE <<SubSeq(d, 1, i - 1)>> \o Lines(SubSeq(d, i + 1, Len(d)))
    IN  Lines(data)

\* the log ends in a fragment that no newline terminates
EndsInFragment(data) == data # <<>> /\ Last(data) # NL

\* the line segments of a log: its terminated lines and its trailing fragment
NumSegments(data) ==
    Len(TerminatedLines(data)) + (IF EndsInFragment(data) THEN 1 ELSE 0)

HasError(line) ==
    \E i \in 1..Len(line) :
        /\ i + 4 <= Len(line)
        /\ line[i] = "e" /\ line[i + 1] = "r" /\ line[i + 2] = "r"
        /\ line[i + 3] = "o" /\ line[i + 4] = "r"

\* the record of execution e after its step, if the step left one
After(e) ==
    {x \in BagToSet(running') :
        x.src = e.src /\ CopiesIn(x, running') > CopiesIn(x, running)}

\* the findings a scanFile step of e returned to Execute
Reported(e) == IF After(e) = {} THEN <<>> ELSE (CHOOSE x \in After(e) : TRUE).issues

\* the number of issues execution e has passed to Issues.Create so far
Submitted(e) == IF e.pc = "submit" THEN e.i - 1 ELSE 0

\* a log of three terminated lines, none of which holds the keyword
ThreeQuietLines(data) ==
    /\ ~EndsInFragment(data)
    /\ Len(TerminatedLines(data)) = 3
    /\ SelectSeq(TerminatedLines(data), HasError) = <<>>

\* such a log after two lines were appended, one of which is "error occurred"
FiveLinesOneError(data) ==
    /\ ~EndsInFragment(data)
    /\ Len(TerminatedLines(data)) = 5
    /\ SelectSeq(TerminatedLines(data), HasError) = <<ErrorOccurred>>
    /\ SelectSeq(SubSeq(TerminatedLines(data), 1, 3), HasError) = <<>>

\* a scan of this content, from some anchor, returned this anchor
ProducedBy(data, anchor) ==
    \E a \in 0..anchor :
        LET r == scanFile(data, a) IN r.status = "ok" /\ r.newAnchor = anchor

(***************************************************************************)
(* C1  Monotonicity: with logs that are only appended to and records that  *)
(* nobody else touches, the value held by a source's anchor record never   *)
(* decreases from one state to the next.                                   *)
(***************************************************************************)
C1_AnchorNeverDecreases ==
    [][\A s \in Services : PersistedAnchor(igu'[s]) >= PersistedAnchor(igu[s])]_vars

(***************************************************************************)
(* C2  Completeness: a scan of a log with terminated lines L[0..n) from    *)
(* anchor a <= n returns exactly the lines of L[a..n) that hold "error",   *)
(* top to bottom; an unterminated fragment yields no finding.              *)
(***************************************************************************)
C2_FindingsAreTheTerminatedErrorLines ==
    [][\A e \in Execs :
         LET L == TerminatedLines(logfile[e.src].data)
         IN  (scanFileStep(e) /\ logfile[e.src].exists /\ e.anchor <= Len(L))
             => Reported(e) = SelectSeq(SubSeq(L, e.anchor + 1, Len(L)), HasError)]_vars

(***************************************************************************)
(* C3  Deferred partial line: a fragment that no newline terminates is not *)
(* counted in the new anchor, so that the scan after the line is completed *)
(* starts at or before it: the anchor a scan is about to store, and the    *)
(* anchor a scan starts from, never exceed the number of terminated lines. *)
(***************************************************************************)
C3_FragmentNotCounted ==
    \A e \in Execs :
        LET n == Len(TerminatedLines(logfile[e.src].data))
        IN  /\ e.pc \in {"setAnchor", "write"} => e.newAnchor <= n
            /\ e.pc = "scanFile" => e.anchor <= n

(***************************************************************************)
(* C4  Concurrency bound: at most max_workers Execute calls are in         *)
(* progress at the same time.                                              *)
(***************************************************************************)
C4_AtMostMaxWorkersExecuting == NumInProgress <= maxWorkers

(***************************************************************************)
(* C5  Per-source exclusivity: no two Execute calls on the same source are *)
(* in progress at the same time.                                           *)
(***************************************************************************)
C5_OneExecutionPerSource == \A s \in Sources : NumInProgressOn(s) <= 1

(***************************************************************************)
(* C6  Cycle drain: main pushes the first scanner of a cycle only when the *)
(* channel is empty and no Execute call of the cycle before is in progress.*)
(***************************************************************************)
C6_DrainBeforeNextDispatch ==
    [][(Push /\ idx = 1) => (queue = <<>> /\ running = EmptyBag)]_vars

(***************************************************************************)
(* C7  Truncation safety: a scan that starts from an anchor greater than   *)
(* the number of lines now in the log ends without a panic, returns no     *)
(* finding and leaves the anchor record as it is: Execute returns at once. *)
(***************************************************************************)
C7_TruncatedLogIsNothingNew ==
    [][\A e \in Execs :
         (/\ scanFileStep(e)
          /\ logfile[e.src].exists
          /\ e.anchor > NumSegments(logfile[e.src].data))
         => (panicked' = None /\ Finish(e) /\ igu' = igu)]_vars

(***************************************************************************)
(* C8  Isolation: a source whose pipeline fails, be it on an anchor record *)
(* that is not of the form key:integer, fails alone; the process is never  *)
(* ended by reading a record, and the workers go on.                       *)
(***************************************************************************)
C8_BadRecordDoesNotEndTheProcess == panicked # IndexOutOfRange

(***************************************************************************)
(* C9  No advance on error: an execution that fails while it loads the     *)
(* anchor, reads the log or scans it has taken steps of getAnchor and      *)
(* scanFile only; none of these steps changes the value the record holds.  *)
(***************************************************************************)
C9_LoadAndScanLeaveTheAnchor ==
    [][\A e \in Execs :
         (\/ getAnchorStat(e) \/ getAnchorCreate(e) \/ getAnchorRead(e)
          \/ getAnchorOpenFails(e) \/ scanFileStep(e))
         => PersistedAnchor(igu'[e.src]) = PersistedAnchor(igu[e.src])]_vars

(***************************************************************************)
(* C10 Idempotence: a scan that starts from an anchor that a scan of the   *)
(* same log content produced returns no finding and stores nothing:        *)
(* Execute returns at once and the record is left as it is, so that the    *)
(* next scan finds the same state again.                                   *)
(***************************************************************************)
C10_RescanFindsNothing ==
    [][\A e \in Execs :
         (/\ scanFileStep(e)
          /\ logfile[e.src].exists
          /\ ProducedBy(logfile[e.src].data, e.anchor))
         => (panicked' = None /\ Finish(e) /\ igu' = igu)]_vars

\* a scan is about to start from the anchor that an earlier scan stored after
\* it had read a log that ends in a fragment holding "error", and that log is
\* still the same
C10_Witness ==
    \E e \in Execs :
        LET data == logfile[e.src].data
        IN  /\ e.pc = "scanFile"
            /\ e.anchor > 0
            /\ PersistedAnchor(igu[e.src]) = e.anchor
            /\ EndsInFragment(data)
            /\ HasError(Last(Split(data, NL)))
            /\ e.anchor = NumSegments(data)

(***************************************************************************)
(* C11 Crash-atomic store: when setAnchor starts on a record that holds    *)
(* the value the execution loaded, the record that a crash in the middle   *)
(* of setAnchor leaves behind, the one after its first step, loads as that *)
(* old value or as the new one.                                            *)
(***************************************************************************)
C11_StoreIsCrashAtomic ==
    [][\A e \in Execs :
         (setAnchorOpen(e) /\ PersistedAnchor(igu[e.src]) = e.anchor)
         => PersistedAnchor(igu'[e.src]) \in {e.anchor, e.newAnchor}]_vars

(***************************************************************************)
(* C12 Load of an absent record: the step of getAnchor that creates the    *)
(* record leaves a record that exists and holds last:0.                    *)
(***************************************************************************)
C12_CreatedRecordHoldsZero ==
    [][\A e \in Execs :
         getAnchorCreate(e) => igu'[e.src] = File(anchorRecord(0))]_vars

C14_SubmitErrorIsSkipped ==
    [][\A e \in Execs :
         submitFails(e)
         => /\ panicked' = None
            /\ igu' = igu
            /\ e.stored
            /\ IF e.i < Len(e.issues)
               THEN After(e) = {[e EXCEPT !.i = e.i + 1]}
               ELSE Finish(e)]_vars

\* the first finding of a scan was not accepted by the tracker, the anchor of
\* the scan is stored, and the second finding is about to be submitted
C14_Witness ==
    \E e \in Execs :
        /\ e.pc = "submit" /\ e.i = 2 /\ e.stored
        /\ ~BagIn(<<e.src, e.at[1]>>, tracker)
        /\ PersistedAnchor(igu[e.src]) = e.newAnchor

(***************************************************************************)
(* C15 At most once: the tracker never holds the same line of a log twice. *)
(***************************************************************************)
C15_NoLineSubmittedTwice ==
    \A x \in BagToSet(tracker) : CopiesIn(x, tracker) <= 1

(***************************************************************************)
(* C16 Scenario, as stated: a scan from anchor 0 of three lines without    *)
(* the keyword yields no finding and the anchor stays 0, so that nothing   *)
(* is stored and Execute returns at once; a scan from anchor 0 of the log  *)
(* with the two lines appended is about to store 5 and yields the one      *)
(* finding "error occurred".                                               *)
(***************************************************************************)
C16_AnchorStaysZero ==
    [][\A e \in Execs :
         LET data == logfile[e.src].data
         IN  /\ (scanFileStep(e) /\ e.anchor = 0 /\ ThreeQuietLines(data))
                => (Finish(e) /\ igu' = igu)
             /\ (scanFileStep(e) /\ e.anchor = 0 /\ FiveLinesOneError(data))
                => \E x \in After(e) :
                      /\ x.pc = "setAnchor" /\ x.newAnchor = 5
                      /\ x.issues = <<ErrorOccurred>>]_vars

(***************************************************************************)
(* C16 Scenario, amended: the scan from anchor 0 of the three lines yields *)
(* no finding and moves the anchor from 0 to 3, which is stored; the scan  *)
(* after the two lines were appended starts from 3, moves the anchor to 5, *)
(* which is stored, and yields the one finding "error occurred".           *)
(***************************************************************************)
C16_AnchorGoesToThreeThenFive ==
    [][\A e \in Execs :
         LET data == logfile[e.src].data
         IN  /\ (scanFileStep(e) /\ e.anchor = 0 /\ ThreeQuietLines(data))
                => After(e) = {[e EXCEPT !.pc = "setAnchor", !.newAnchor = 3]}
             /\ (scanFileStep(e) /\ e.anchor = 3 /\ FiveLinesOneError(data))
                => \E x \in After(e) :
                      /\ After(e) = {x}
                      /\ x.pc = "setAnchor" /\ x.anchor = 3 /\ x.newAnchor = 5
                      /\ x.issues = <<ErrorOccurred>>
             /\ (setAnchorWrite(e) /\ e.newAnchor \in {3, 5})
                => PersistedAnchor(igu'[e.src]) = e.newAnchor]_vars

\* the second scan started from the anchor 3 that the first one stored, has
\* stored 5 and is about to submit its one finding, "error occurred"
C16_Witness ==
    \E e \in Execs :
        /\ e.pc = "submit" /\ e.anchor = 3 /\ e.newAnchor = 5 /\ e.stored
        /\ e.issues = <<ErrorOccurred>>
        /\ FiveLinesOneError(logfile[e.src].data)
        /\ PersistedAnchor(igu[e.src]) = 5

C18_PoolSizeIsWorkerN == workers > 0 => workers = workerN

(***************************************************************************)
(* C19 Dispatch liveness: under fair scheduling main always gets from the  *)
(* push loop back to waiting for the tick, every scanner in the channel is *)
(* taken, so that the channel gets empty again, and every Execute call     *)
(* that was started returns.                                               *)
(***************************************************************************)
C19_DispatchLiveness ==
    /\ (mainpc = "push") ~> (mainpc = "wait")
    /\ (queue # <<>>) ~> (queue = <<>>)
    /\ (running # EmptyBag) ~> (running = EmptyBag)

\* two sources and one worker: main waits in the push loop for room in the
\* channel, which is full, while the worker is executing
C19_Witness ==
    /\ Len(scanners) = 2 /\ workerN = 1
    /\ mainpc = "push" /\ idx = 2
    /\ Len(queue) = workerN
    /\ running # EmptyBag

(***************************************************************************)
(* C20 Anchor within bounds: with a log that only grows and a record that  *)
(* only the program writes, the anchor the record holds, the anchor an     *)
(* execution scans from and the anchor it is about to store are at most    *)
(* the number of line segments of the log, and logs[s.anchor:] never       *)
(* panics.                                                                 *)
(***************************************************************************)
C20_AnchorWithinLog ==
    /\ panicked # SliceBounds
    /\ \A s \in Sources :
          PersistedAnchor(igu[s]) <= NumSegments(logfile[s].data)
    /\ \A e \in Execs :
          /\ e.pc = "scanFile" => e.anchor <= NumSegments(logfile[e.src].data)
          /\ e.pc \in {"setAnchor", "write"}
                => e.newAnchor <= NumSegments(logfile[e.src].data)

\* a scan is about to skip every line of a log of two lines or more that ends
\* in a newline: the slice starts at the last index strings.Split allows
C20_Witness ==
    \E e \in Execs :
        LET data == logfile[e.src].data
        IN  /\ e.pc = "scanFile"
            /\ e.anchor >= 2
            /\ ~EndsInFragment(data)
            /\ e.anchor = NumSegments(data)
            /\ e.anchor + 1 = Len(Split(data, NL))

=============================================================================
